---- MODULE Spec2Model ----
(***************************************************************************)
(* Sewer-network topology scripts: adjacency of line segments and their    *)
(* bearing (get_flow_direction.py), snapping of line endpoints to point    *)
(* features (fix_topology_errors.py), materials of adjacent segments       *)
(* (get_materials.py), point features at the ends of segments              *)
(* (assign_point_info.py) and manholes where adjacent segments meet        *)
(* (assign_manhole_ids.py).                                                *)
(*                                                                         *)
(* Lengths are integers in a unit small enough for the tolerances to be    *)
(* whole numbers.  Distances are compared through their squares, which is  *)
(* exact for non-negative numbers.                                         *)
(***************************************************************************)
EXTENDS Integers, Sequences, FiniteSets, TLC

\* get_flow_direction.py: the feature class, the tolerance, the list built by
\* calculate_direction_values, the two dictionaries of get_adjacent_ids
VARIABLES feature_class, xy_tolerance, feature_data, from_adjacent_ids,
          to_adjacent_ids

\* fix_topology_errors.py: the point layer, the line layer as stored, the
\* features returned by line_layer.query, and the locals of main
VARIABLES point_layer, line_layer, line_feature_set, result_lines,
          updated_count, line_updated, idx

\* the number of the run of main over the line layer
VARIABLES run_no

\* calculate_bearing and get_direction_text: the arguments (x1, y1, x2, y2),
\* the bearing and the direction text
VARIABLES bearing_args, bearing, direction_text

\* get_materials.py: the projected feature class, the dictionary of the first
\* pass and the dictionary returned by calculate_adjacent_and_material
VARIABLES projected_fc, features_data, calc_results

\* assign_point_info.py: the line and the point feature class and the position
\* of the update cursor
VARIABLES line_fc, point_fc, cursor_pos

\* assign_manhole_ids.py: the line and the manhole feature class
VARIABLES mh_line_fc, manhole_fc

\* update_fields of get_flow_direction.py: the rows as they were when the
\* edit session started, whether the session is open, and the position of the
\* update cursor
VARIABLES edit_backup, isEditing, edit_cursor

\* snap_endpoint_to_point called on its own: the arguments and the line
\* feature after the call
VARIABLES snap_call, snap_result

\* the position of the running script
VARIABLES pc

adjVars == <<feature_class, xy_tolerance, feature_data, from_adjacent_ids,
             to_adjacent_ids>>

snapVars == <<point_layer, line_layer, line_feature_set, result_lines,
              updated_count, line_updated, idx, run_no>>

dirVars == <<bearing_args, bearing, direction_text>>

matVars == <<projected_fc, features_data, calc_results>>

ptVars == <<line_fc, point_fc, cursor_pos>>

mhVars == <<mh_line_fc, manhole_fc>>

editVars == <<edit_backup, isEditing, edit_cursor>>

frameVars == <<snap_call, snap_result>>

vars == <<adjVars, snapVars, dirVars, matVars, ptVars, mhVars, editVars,
          frameVars, pc>>

\* the variables that a script does not touch
notAdjVars == <<snapVars, dirVars, matVars, ptVars, mhVars, editVars, frameVars>>

notSnapVars == <<adjVars, dirVars, matVars, ptVars, mhVars, editVars, frameVars>>

notDirVars == <<adjVars, snapVars, matVars, ptVars, mhVars, editVars, frameVars>>

notMatVars == <<feature_class, feature_data, from_adjacent_ids, to_adjacent_ids,
                snapVars, dirVars, ptVars, mhVars, editVars, frameVars>>

notPtVars == <<adjVars, snapVars, dirVars, matVars, mhVars, editVars, frameVars>>

notMhVars == <<adjVars, snapVars, dirVars, matVars, ptVars, editVars, frameVars>>

notEditVars == <<snapVars, dirVars, matVars, ptVars, mhVars, frameVars>>

notFrameVars == <<adjVars, snapVars, dirVars, matVars, ptVars, mhVars, editVars>>

(* ---------------- bounds of the model ---------------- *)
MaxSegs == 3
MaxPoints == 2
MaxLines == 2
MaxDelta == 2
MaxPipes == 2

(* ---------------- values ---------------- *)
None == "None"

\* coordinates of the projected feature class
Coords == { <<0, 0>>, <<1, 0>>, <<1, 1>>, <<3, 1>> }

\* values of xy_tolerance: with 2, the first three coordinates are pairwise
\* closer than the tolerance and <<3, 1>> is exactly at the tolerance from
\* <<1, 1>>; with 1, no two different coordinates are closer than the tolerance
Tolerances == { 1, 2 }

\* FACILITYID values of the rows 1, 2, ...
FacilityIds == <<"F1", "F2", "F3", "F4", "F5">>

\* SHAPE@ of a row: no geometry (None), or a polyline given by its vertices
Shapes == { <<>> } \cup { <<p, q>> : p \in Coords, q \in Coords }

\* the rows of a table of n rows; FACILITYID is not enforced to be unique: with
\* dup, row 2 repeats the FACILITYID of row 1
Tables(n) ==
    { [k \in 1..n |->
          [oid |-> k,
           id |-> IF dup /\ k = 2 THEN FacilityIds[1] ELSE FacilityIds[k],
           shape |-> shapes[k]]] :
      dup \in BOOLEAN, shapes \in [1..n -> Shapes] }

(* ---------------- get_flow_direction.py ---------------- *)

\* math.dist((x1, y1), (x2, y2)) ** 2
dist2(x1, y1, x2, y2) == (x1 - x2) * (x1 - x2) + (y1 - y2) * (y1 - y2)

\* variant: the comparison written with <=
dist_le_tolerance(sx, sy, x, y, tol) == dist2(sx, sy, x, y) <= tol * tol

\* math.dist((sx, sy), (x, y)) < xy_tolerance
dist_lt_tolerance(sx, sy, x, y, tol) == dist2(sx, sy, x, y) < tol * tol

\* Angles are integers in tenths of a degree (22.5 degrees is 225).  A bearing
\* is a sequence: <<>> for None, <<b>> for the number b.

\* math.degrees(math.atan2(y, x)) for 0 < y < x <= 3, to the tenth of a degree:
\* 26.565 for 1/2, 18.435 for 1/3, 33.690 for 2/3
atan_degrees(y, x) ==
    IF 2 * y = x THEN 266
    ELSE IF 3 * y = x THEN 184
    ELSE 337

\* math.degrees(math.atan2(y, x)), in (-180, 180]
atan2_degrees(y, x) ==
    LET ax == IF x < 0 THEN -x ELSE x
        ay == IF y < 0 THEN -y ELSE y
        a == IF ay = 0 THEN 0
             ELSE IF ax = 0 THEN 900
             ELSE IF ax = ay THEN 450
             ELSE IF ay < ax THEN atan_degrees(ay, ax)
             ELSE 900 - atan_degrees(ax, ay)
    IN  IF x >= 0 THEN (IF y >= 0 THEN a ELSE -a)
        ELSE (IF y >= 0 THEN 1800 - a ELSE a - 1800)

\* variant: a zero-length line gets the bearing 0
calculate_bearing_zero_for_same_points(x1, y1, x2, y2) ==
    IF x1 = x2 /\ y1 = y2 THEN <<0>>
    ELSE <<(900 - atan2_degrees(y2 - y1, x2 - x1) + 3600) % 3600>>

\* variant: the angle from the positive x axis is returned as it is
calculate_bearing_from_east(x1, y1, x2, y2) ==
    IF x1 = x2 /\ y1 = y2 THEN <<>>
    ELSE <<(atan2_degrees(y2 - y1, x2 - x1) + 3600) % 3600>>

\* calculate_bearing: None for equal points, else (90 - angle + 360) % 360
calculate_bearing(x1, y1, x2, y2) ==
    IF x1 = x2 /\ y1 = y2 THEN <<>>
    ELSE LET delta_x == x2 - x1
             delta_y == y2 - y1
             angle_degrees == atan2_degrees(delta_y, delta_x)
         IN  <<(900 - angle_degrees + 3600) % 3600>>

\* variant: every sector includes its upper boundary instead of its lower one
get_direction_text_upper_inclusive(b) ==
    IF b = <<>> THEN None
    ELSE LET d == b[1] % 3600
         IN  IF (d > 3375 /\ d <= 3600) \/ (d >= 0 /\ d <= 225) THEN "N"
             ELSE IF d > 225 /\ d <= 675 THEN "NE"
             ELSE IF d > 675 /\ d <= 1125 THEN "E"
             ELSE IF d > 1125 /\ d <= 1575 THEN "SE"
             ELSE IF d > 1575 /\ d <= 2025 THEN "S"
             ELSE IF d > 2025 /\ d <= 2475 THEN "SW"
             ELSE IF d > 2475 /\ d <= 2925 THEN "W"
             ELSE IF d > 2925 /\ d <= 3375 THEN "NW"
             ELSE None

\* get_direction_text: None for None, else the if-chain on bearing % 360
get_direction_text(b) ==
    IF b = <<>> THEN None
    ELSE LET d == b[1] % 3600
         IN  IF (d >= 3375 /\ d <= 3600) \/ (d >= 0 /\ d < 225) THEN "N"
             ELSE IF d >= 225 /\ d < 675 THEN "NE"
             ELSE IF d >= 675 /\ d < 1125 THEN "E"
             ELSE IF d >= 1125 /\ d < 1575 THEN "SE"
             ELSE IF d >= 1575 /\ d < 2025 THEN "S"
             ELSE IF d >= 2025 /\ d < 2475 THEN "SW"
             ELSE IF d >= 2475 /\ d < 2925 THEN "W"
             ELSE IF d >= 2925 /\ d < 3375 THEN "NW"
             ELSE None

\* calculate_direction_values: one tuple per row that has a geometry whose
\* first and last point can be read; a shape whose first point is <<>> has no
\* points, and reading its coordinates raises
RECURSIVE read_rows(_, _)
read_rows(table, k) ==
    IF k > Len(table) THEN <<>>
    ELSE LET row == table[k]
             start_point == row.shape[1]
             end_point == row.shape[Len(row.shape)]
         IN  IF row.shape = <<>> THEN read_rows(table, k + 1)
             ELSE IF start_point = <<>> THEN read_rows(table, k + 1)
             ELSE <<[oid |-> row.oid, id |-> row.id,
                     sx |-> start_point[1], sy |-> start_point[2],
                     ex |-> end_point[1], ey |-> end_point[2],
                     bearing |-> calculate_bearing(start_point[1], start_point[2],
                                                   end_point[1], end_point[2]),
                     direction_text |->
                         get_direction_text(
                             calculate_bearing(start_point[1], start_point[2],
                                               end_point[1], end_point[2]))]>>
                  \o read_rows(table, k + 1)

\* variant: only the start record of every feature is collected
RECURSIVE start_endpoints_only(_, _)
start_endpoints_only(fd, k) ==
    IF k > Len(fd) THEN <<>>
    ELSE << [id |-> fd[k].id, oid |-> fd[k].oid, x |-> fd[k].sx, y |-> fd[k].sy] >>
         \o start_endpoints_only(fd, k + 1)

\* all_endpoints: start record, then end record, of every feature in order
RECURSIVE all_endpoints(_, _)
all_endpoints(fd, k) ==
    IF k > Len(fd) THEN <<>>
    ELSE << [id |-> fd[k].id, oid |-> fd[k].oid, x |-> fd[k].sx, y |-> fd[k].sy],
            [id |-> fd[k].id, oid |-> fd[k].oid, x |-> fd[k].ex, y |-> fd[k].ey] >>
         \o all_endpoints(fd, k + 1)

\* variant: the loop has no break, so the last coincident record is kept
RECURSIVE scan_endpoints_no_break(_, _, _, _, _, _)
scan_endpoints_no_break(eps, k, oid, x, y, tol) ==
    IF k > Len(eps) THEN None
    ELSE LET later == scan_endpoints_no_break(eps, k + 1, oid, x, y, tol)
         IN  IF eps[k].oid = oid THEN later
             ELSE IF dist_lt_tolerance(x, y, eps[k].x, eps[k].y, tol) /\ later = None
                  THEN eps[k].id
             ELSE later

\* variant: the loop does not skip the records of the line itself
RECURSIVE scan_endpoints_no_skip(_, _, _, _, _, _)
scan_endpoints_no_skip(eps, k, oid, x, y, tol) ==
    IF k > Len(eps) THEN None
    ELSE IF dist_lt_tolerance(x, y, eps[k].x, eps[k].y, tol) THEN eps[k].id
    ELSE scan_endpoints_no_skip(eps, k + 1, oid, x, y, tol)

\* the inner for loop: skip own records, stop at the first coincident one
RECURSIVE scan_endpoints(_, _, _, _, _, _)
scan_endpoints(eps, k, oid, x, y, tol) ==
    IF k > Len(eps) THEN None
    ELSE IF eps[k].oid = oid THEN scan_endpoints(eps, k + 1, oid, x, y, tol)
    ELSE IF dist_lt_tolerance(x, y, eps[k].x, eps[k].y, tol) THEN eps[k].id
    ELSE scan_endpoints(eps, k + 1, oid, x, y, tol)

\* variant: the first loop compares the end point (ex, ey)
get_adjacent_from_end_point(fd, tol) ==
    LET endpoints == all_endpoints(fd, 1)
    IN  [oid \in { fd[k].oid : k \in 1..Len(fd) } |->
            LET f == fd[CHOOSE k \in 1..Len(fd) : fd[k].oid = oid]
            IN  scan_endpoints(endpoints, 1, oid, f.ex, f.ey, tol)]

\* the first inner loop of get_adjacent_ids, for every feature: from_adjacent_ids
get_adjacent_from(fd, tol) ==
    LET endpoints == all_endpoints(fd, 1)
    IN  [oid \in { fd[k].oid : k \in 1..Len(fd) } |->
            LET f == fd[CHOOSE k \in 1..Len(fd) : fd[k].oid = oid]
            IN  scan_endpoints(endpoints, 1, oid, f.sx, f.sy, tol)]

\* variant: the second loop compares the start point (sx, sy)
get_adjacent_to_start_point(fd, tol) ==
    LET endpoints == all_endpoints(fd, 1)
    IN  [oid \in { fd[k].oid : k \in 1..Len(fd) } |->
            LET f == fd[CHOOSE k \in 1..Len(fd) : fd[k].oid = oid]
            IN  scan_endpoints(endpoints, 1, oid, f.sx, f.sy, tol)]

\* the second inner loop of get_adjacent_ids, for every feature: to_adjacent_ids
get_adjacent_to(fd, tol) ==
    LET endpoints == all_endpoints(fd, 1)
    IN  [oid \in { fd[k].oid : k \in 1..Len(fd) } |->
            LET f == fd[CHOOSE k \in 1..Len(fd) : fd[k].oid = oid]
            IN  scan_endpoints(endpoints, 1, oid, f.ex, f.ey, tol)]

\* nothing of get_flow_direction.py is loaded
NoAdj ==
    /\ feature_class = <<>>
    /\ xy_tolerance = 0
    /\ feature_data = <<>>
    /\ from_adjacent_ids = <<>>
    /\ to_adjacent_ids = <<>>

\* nothing of calculate_bearing is in use
NoDir ==
    /\ bearing_args = <<>>
    /\ bearing = <<>>
    /\ direction_text = None

\* nothing of get_materials.py is loaded
NoMat ==
    /\ projected_fc = <<>>
    /\ features_data = <<>>
    /\ calc_results = <<>>

\* nothing of assign_point_info.py is loaded
NoPt ==
    /\ line_fc = <<>>
    /\ point_fc = <<>>
    /\ cursor_pos = 1

\* nothing of assign_manhole_ids.py is loaded
NoMh ==
    /\ mh_line_fc = <<>>
    /\ manhole_fc = <<>>

\* no edit session of update_fields is open
NoEdit ==
    /\ edit_backup = <<>>
    /\ isEditing = FALSE
    /\ edit_cursor = 1

\* snap_endpoint_to_point is not called on its own
NoFrame ==
    /\ snap_call = <<>>
    /\ snap_result = <<>>

\* nothing of fix_topology_errors.py is loaded
NoSnap ==
    /\ point_layer = <<>>
    /\ line_layer = <<>>
    /\ line_feature_set = <<>>
    /\ result_lines = <<>>
    /\ updated_count = 0
    /\ line_updated = FALSE
    /\ idx = 1
    /\ run_no = 1

Init ==
    /\ \E n \in 1..MaxSegs : feature_class \in Tables(n)
    /\ xy_tolerance \in Tolerances
    /\ feature_data = <<>>
    /\ from_adjacent_ids = <<>>
    /\ to_adjacent_ids = <<>>
    /\ pc = "read"
    /\ NoSnap
    /\ NoDir
    /\ NoMat
    /\ NoPt
    /\ NoMh
    /\ NoEdit
    /\ NoFrame

calculate_direction_values ==
    /\ pc = "read"
    /\ feature_data' = read_rows(feature_class, 1)
    /\ pc' = "adjacent"
    /\ UNCHANGED <<feature_class, xy_tolerance, from_adjacent_ids, to_adjacent_ids>>
    /\ UNCHANGED notAdjVars

get_adjacent_ids ==
    /\ pc = "adjacent"
    /\ from_adjacent_ids' = get_adjacent_from(feature_data, xy_tolerance)
    /\ to_adjacent_ids' = get_adjacent_to(feature_data, xy_tolerance)
    /\ pc' = "done"
    /\ UNCHANGED <<feature_class, xy_tolerance, feature_data>>
    /\ UNCHANGED notAdjVars

Next == calculate_direction_values \/ get_adjacent_ids

Spec == Init /\ [][Next]_vars

\* the same run of the script, under which the properties of the scan of one
\* end are checked
SpecScan == Init /\ [][Next]_vars

(* ---------------- get_flow_direction.py: update_fields ---------------- *)

\* a polyline without points: shape.firstPoint is None
EmptyShape == << <<>> >>

DirShapes ==
    { <<>>, EmptyShape,
      << <<0, 0>>, <<1, 0>> >>,
      << <<1, 0>>, <<1, 1>> >>,
      << <<1, 1>>, <<1, 1>> >>,
      << <<1, 0>>, <<3, 1>> >> }

\* direction_float as an earlier run may have left it
OLD_DIRECTION_FLOAT == <<1>>

\* the rows with the four derived fields: null in all rows, or the values of
\* an earlier run in all rows
DirTables(n) ==
    { [k \in 1..n |->
          [oid |-> k, id |-> FacilityIds[k], shape |-> shapes[k],
           from_adjacent_id |-> prior,
           to_adjacent_id |-> prior,
           direction_float |-> IF prior = None THEN <<>> ELSE OLD_DIRECTION_FLOAT,
           direction_text |-> prior]] :
      prior \in {None, "old"}, shapes \in [1..n -> DirShapes] }

\* feature_data_dict.get(oid): <<>> for None
feature_data_dict_get(fd, oid) ==
    LET found == { k \in 1..Len(fd) : fd[k].oid = oid }
    IN  IF found = {} THEN <<>>
        ELSE << fd[CHOOSE k \in found : \A j \in found : j <= k] >>

\* from_adjacent_ids.get(oid)
adjacent_ids_get(ids, oid) == IF oid \in DOMAIN ids THEN ids[oid] ELSE None

\* variant: a row without calculated data is left as it is
flow_update_row_keeping_values(row, fd, from_ids, to_ids) ==
    LET calculated_data == feature_data_dict_get(fd, row.oid)
    IN  IF calculated_data # <<>>
        THEN [row EXCEPT !.from_adjacent_id = adjacent_ids_get(from_ids, row.oid),
                         !.to_adjacent_id = adjacent_ids_get(to_ids, row.oid),
                         !.direction_float = calculated_data[1].bearing,
                         !.direction_text = calculated_data[1].direction_text]
        ELSE row

\* the body of the update loop: the four fields of one row
flow_update_row(row, fd, from_ids, to_ids) ==
    LET calculated_data == feature_data_dict_get(fd, row.oid)
    IN  IF calculated_data # <<>>
        THEN [row EXCEPT !.from_adjacent_id = adjacent_ids_get(from_ids, row.oid),
                         !.to_adjacent_id = adjacent_ids_get(to_ids, row.oid),
                         !.direction_float = calculated_data[1].bearing,
                         !.direction_text = calculated_data[1].direction_text]
        ELSE [row EXCEPT !.from_adjacent_id = None,
                         !.to_adjacent_id = None,
                         !.direction_float = <<>>,
                         !.direction_text = None]

InitDir ==
    /\ \E n \in 1..MaxSegs : feature_class \in DirTables(n)
    /\ xy_tolerance \in Tolerances
    /\ feature_data = <<>>
    /\ from_adjacent_ids = <<>>
    /\ to_adjacent_ids = <<>>
    /\ pc = "read"
    /\ NoEdit
    /\ NoSnap
    /\ NoDir
    /\ NoMat
    /\ NoPt
    /\ NoMh
    /\ NoFrame

\* update_fields up to the opening of the cursor: get_adjacent_ids, then
\* startEditing and startOperation
update_fields_start ==
    /\ pc = "adjacent"
    /\ from_adjacent_ids' = get_adjacent_from(feature_data, xy_tolerance)
    /\ to_adjacent_ids' = get_adjacent_to(feature_data, xy_tolerance)
    /\ edit_backup' = feature_class
    /\ isEditing' = TRUE
    /\ edit_cursor' = 1
    /\ pc' = "update"
    /\ UNCHANGED <<feature_class, xy_tolerance, feature_data>>
    /\ UNCHANGED notEditVars

\* one pass of the update loop: the row is set and cursor.updateRow writes it
update_fields_row ==
    /\ pc = "update"
    /\ edit_cursor <= Len(feature_class)
    /\ feature_class' =
           [feature_class EXCEPT ![edit_cursor] =
               flow_update_row(@, feature_data, from_adjacent_ids, to_adjacent_ids)]
    /\ edit_cursor' = edit_cursor + 1
    /\ UNCHANGED <<xy_tolerance, feature_data, from_adjacent_ids, to_adjacent_ids,
                   edit_backup, isEditing, pc>>
    /\ UNCHANGED notEditVars

\* variant: the except branch saves the edits made so far
update_fields_error_saving_edits ==
    /\ pc = "update"
    /\ edit_cursor <= Len(feature_class)
    /\ isEditing' = FALSE
    /\ pc' = "aborted"
    /\ UNCHANGED <<feature_class, xy_tolerance, feature_data, from_adjacent_ids,
                   to_adjacent_ids, edit_backup, edit_cursor>>
    /\ UNCHANGED notEditVars

\* an exception at the row under the cursor: the except branch stops the
\* operation and calls stopEditing(False), which discards the edits of the
\* session; update_fields then returns
update_fields_error ==
    /\ pc = "update"
    /\ edit_cursor <= Len(feature_class)
    /\ feature_class' = edit_backup
    /\ isEditing' = FALSE
    /\ pc' = "aborted"
    /\ UNCHANGED <<xy_tolerance, feature_data, from_adjacent_ids, to_adjacent_ids,
                   edit_backup, edit_cursor>>
    /\ UNCHANGED notEditVars

\* the loop is over: stopOperation and stopEditing(True) save the edits
update_fields_end ==
    /\ pc = "update"
    /\ edit_cursor > Len(feature_class)
    /\ isEditing' = FALSE
    /\ pc' = "done"
    /\ UNCHANGED <<feature_class, xy_tolerance, feature_data, from_adjacent_ids,
                   to_adjacent_ids, edit_backup, edit_cursor>>
    /\ UNCHANGED notEditVars

NextDir ==
    \/ calculate_direction_values
    \/ update_fields_start
    \/ update_fields_row
    \/ update_fields_error
    \/ update_fields_end

SpecDir == InitDir /\ [][NextDir]_vars

(* ---------------- calculate_bearing, get_direction_text ---------------- *)

\* start points (x1, y1) and differences (x2 - x1, y2 - y1) of the arguments
StartPoints == { <<0, 0>>, <<7, -3>> }

Deltas == { <<dx, dy>> : dx \in (-MaxDelta)..MaxDelta, dy \in (-MaxDelta)..MaxDelta }

\* arguments of get_direction_text: None and every tenth of a degree of 0..360
Bearings == { <<>> } \cup { <<b>> : b \in 0..(360 * 10) }

\* either the coordinates of a line are given and both functions are applied,
\* or a bearing is given and get_direction_text is applied
InitBearing ==
    /\ \/ /\ \E p \in StartPoints, d \in Deltas :
                  bearing_args = <<p[1], p[2], p[1] + d[1], p[2] + d[2]>>
          /\ bearing = <<>>
          /\ pc = "bearing"
       \/ /\ bearing_args = <<>>
          /\ bearing \in Bearings
          /\ pc = "text"
    /\ direction_text = None
    /\ NoAdj
    /\ NoSnap
    /\ NoMat
    /\ NoPt
    /\ NoMh
    /\ NoEdit
    /\ NoFrame

\* bearing = calculate_bearing(sx, sy, ex, ey)
call_calculate_bearing ==
    /\ pc = "bearing"
    /\ bearing' = calculate_bearing(bearing_args[1], bearing_args[2],
                                    bearing_args[3], bearing_args[4])
    /\ pc' = "text"
    /\ UNCHANGED <<bearing_args, direction_text>>
    /\ UNCHANGED notDirVars

\* direction_text = get_direction_text(bearing)
call_get_direction_text ==
    /\ pc = "text"
    /\ direction_text' = get_direction_text(bearing)
    /\ pc' = "done"
    /\ UNCHANGED <<bearing_args, bearing>>
    /\ UNCHANGED notDirVars

NextBearing == call_calculate_bearing \/ call_get_direction_text

SpecBearing == InitBearing /\ [][NextBearing]_vars

(* ---------------- fix_topology_errors.py ---------------- *)

\* in model units; the code relies on SNAP_TOLERANCE_FEET < BUFFER_WIDTH_FEET
BUFFER_WIDTH_FEET == 3
SNAP_TOLERANCE_FEET == 1

\* locations of point features and of line vertices: the distances between them
\* are 0, 1 (the snap tolerance), values between the snap tolerance and the
\* buffer width, and one value beyond the buffer width (<<0, 0>> to <<3, 1>>)
PointSites == { <<0, 0>>, <<1, 1>>, <<3, 1>> }

EndSites == { <<0, 0>>, <<1, 0>>, <<1, 1>>, <<2, 0>> }

SeqsUpTo(S, n) == UNION { [1..m -> S] : m \in 0..n }

\* the spatial reference of the layers
SR_PROJECTED == "EPSG:2276"

\* a line feature: the first path of its geometry and its spatial reference
LineFeatures ==
    { [path |-> <<p, q>>, spatialReference |-> SR_PROJECTED] :
          p \in EndSites, q \in EndSites }

\* line features as a service can return them: well formed, with a path of no
\* vertex, with a path of one vertex, and without the key 'spatialReference'
\* (None stands for the missing key)
BatchLineFeatures ==
    { [path |-> <<<<0, 0>>, <<2, 0>>>>, spatialReference |-> SR_PROJECTED],
      [path |-> <<<<1, 1>>, <<1, 0>>>>, spatialReference |-> SR_PROJECTED],
      [path |-> <<<<2, 0>>, <<0, 0>>>>, spatialReference |-> SR_PROJECTED],
      [path |-> <<>>, spatialReference |-> SR_PROJECTED],
      [path |-> <<<<0, 0>>>>, spatialReference |-> SR_PROJECTED],
      [path |-> <<<<2, 0>>>>, spatialReference |-> SR_PROJECTED],
      [path |-> <<<<0, 0>>, <<1, 1>>>>, spatialReference |-> None] }

\* get_point_distance(p1, p2) ** 2
get_point_distance2(p1, p2) == dist2(p1[1], p1[2], p2[1], p2[2])

\* get_endpoints raises: KeyError at line_geom['spatialReference'] when the key
\* is missing, IndexError at path[0] when the path has no vertex
get_endpoints_raises(line_geom) ==
    line_geom.spatialReference = None \/ line_geom.path = <<>>

\* get_endpoints: the first and the last vertex of the first path
get_endpoints(line_geom) == << line_geom.path[1], line_geom.path[Len(line_geom.path)] >>

\* use_proximity.create_buffers(point_layer, distances=[buffer_distance]): one
\* disc per point feature, in the order of the point layer
create_buffers(points, buffer_distance) ==
    [i \in 1..Len(points) |-> [center |-> points[i], distance |-> buffer_distance]]

\* the disc of a buffer feature holds the point (its boundary included)
disc_holds(buffer_geom, point) ==
    get_point_distance2(point, buffer_geom.center)
        <= buffer_geom.distance * buffer_geom.distance

\* variant: within returns a filter, which is truthy for every buffer that the
\* line meets
within_any_buffer(endpoint, buffer_geom) ==
    disc_holds(buffer_geom, endpoint) \/ buffer_geom.distance > 0

\* within(endpoint, buffer_feature.geometry), read as the containment test that
\* the docstring of process_endpoint states
within(endpoint, buffer_geom) == disc_holds(buffer_geom, endpoint)

\* the segment from p to q meets the disc of the buffer
segment_meets_disc(p, q, buffer_geom) ==
    LET c == buffer_geom.center
        r2 == buffer_geom.distance * buffer_geom.distance
        dd == get_point_distance2(p, q)
        t == (c[1] - p[1]) * (q[1] - p[1]) + (c[2] - p[2]) * (q[2] - p[2])
    IN  IF dd = 0 \/ t <= 0 THEN get_point_distance2(p, c) <= r2
        ELSE IF t >= dd THEN get_point_distance2(q, c) <= r2
        ELSE get_point_distance2(p, c) * dd - t * t <= r2 * dd

\* intersects(line_geom) applied to a buffer feature
line_intersects(line_geom, buffer_geom) ==
    \/ \E k \in 1..Len(line_geom.path) : disc_holds(buffer_geom, line_geom.path[k])
    \/ \E k \in 1..(Len(line_geom.path) - 1) :
           segment_meets_disc(line_geom.path[k], line_geom.path[k + 1], buffer_geom)

\* get_intersecting_buffer_features: the buffers that the line meets, in layer order
get_intersecting_buffer_features(line_feature, buffer_layer) ==
    SelectSeq(buffer_layer, LAMBDA b : line_intersects(line_feature, b))

\* variant: the endpoints of the other lines that lie in the buffer are
\* candidates too
get_points_and_line_ends_in_buffer(points, buffer_feature) ==
    SelectSeq(points, LAMBDA q : disc_holds(buffer_feature, q))
    \o SelectSeq([k \in 1..(2 * Len(line_layer)) |->
                     get_endpoints(line_layer[(k + 1) \div 2])[2 - (k % 2)]],
                 LAMBDA q : disc_holds(buffer_feature, q)
                            /\ q \notin { get_endpoints(line_layer[idx])[1],
                                          get_endpoints(line_layer[idx])[2] })

\* get_points_in_buffer: the points of the layer that intersect the buffer
get_points_in_buffer(points, buffer_feature) ==
    SelectSeq(points, LAMBDA q : disc_holds(buffer_feature, q))

\* the loop of get_nearest_point; best = 0 stands for nearest_point = None with
\* min_distance = inf
RECURSIVE nearest_index(_, _, _, _)
nearest_index(point, point_list, k, best) ==
    IF k > Len(point_list) THEN best
    ELSE IF best = 0 \/ get_point_distance2(point, point_list[k])
                            < get_point_distance2(point, point_list[best])
         THEN nearest_index(point, point_list, k + 1, k)
         ELSE nearest_index(point, point_list, k + 1, best)

\* get_nearest_point; <<>> stands for None
get_nearest_point(point, point_list) ==
    LET i == nearest_index(point, point_list, 1, 0)
    IN  IF i = 0 THEN <<>> ELSE point_list[i]

\* variant: an endpoint exactly at the tolerance does not count as snapped
is_snapped_below_tolerance(endpoint, target_point, tolerance) ==
    get_point_distance2(endpoint, target_point) < tolerance * tolerance

\* variant: the comparison is distance < 0, which no endpoint satisfies
is_snapped_never(endpoint, target_point, tolerance) ==
    get_point_distance2(endpoint, target_point) < 0

\* is_snapped: distance <= tolerance
is_snapped(endpoint, target_point, tolerance) ==
    get_point_distance2(endpoint, target_point) <= tolerance * tolerance

\* variant: the two branches are exchanged
snap_other_endpoint(line_feature, endpoint_index, new_point) ==
    [line_feature EXCEPT !.path =
        IF endpoint_index = 0 THEN [@ EXCEPT ![Len(@)] = new_point]
        ELSE [@ EXCEPT ![1] = new_point]]

\* variant: the geometry is rebuilt from its two end vertices only
snap_endpoint_dropping_interior(line_feature, endpoint_index, new_point) ==
    [line_feature EXCEPT !.path =
        IF endpoint_index = 0 THEN <<new_point, @[Len(@)]>>
        ELSE <<@[1], new_point>>]

\* snap_endpoint_to_point: index 0 rewrites path[0], any other index path[-1]
snap_endpoint_to_point(line_feature, endpoint_index, new_point) ==
    [line_feature EXCEPT !.path =
        IF endpoint_index = 0 THEN [@ EXCEPT ![1] = new_point]
        ELSE [@ EXCEPT ![Len(@)] = new_point]]

\* the for loop of process_endpoint: every buffer that holds the endpoint
\* assigns target_points anew, so the last such buffer decides
RECURSIVE scan_buffers(_, _, _, _, _)
scan_buffers(buffer_features, k, endpoint, points, acc) ==
    IF k > Len(buffer_features) THEN acc
    ELSE IF within(endpoint, buffer_features[k])
         THEN scan_buffers(buffer_features, k + 1, endpoint, points,
                           [ep_in_question |-> TRUE,
                            target_points |-> get_points_in_buffer(points, buffer_features[k])])
         ELSE scan_buffers(buffer_features, k + 1, endpoint, points, acc)

\* process_endpoint: (updated, line feature)
process_endpoint(line_feature, endpoint, endpoint_index, buffer_features, points) ==
    LET found == scan_buffers(buffer_features, 1, endpoint, points,
                              [ep_in_question |-> FALSE, target_points |-> <<>>])
        nearest_point == get_nearest_point(endpoint, found.target_points)
    IN  IF /\ found.ep_in_question
           /\ found.target_points # <<>>
           /\ nearest_point # <<>>
           /\ ~is_snapped(endpoint, nearest_point, SNAP_TOLERANCE_FEET)
        THEN [updated |-> TRUE,
              line |-> snap_endpoint_to_point(line_feature, endpoint_index, nearest_point)]
        ELSE [updated |-> FALSE, line |-> line_feature]

\* variant: the end endpoint is looked at only when the start endpoint was left
\* where it was
process_line_end_only_if_start_kept(line_feature, buffer_layer, points) ==
    LET endpoints == get_endpoints(line_feature)
        buffer_features == get_intersecting_buffer_features(line_feature, buffer_layer)
        first == process_endpoint(line_feature, endpoints[1], 0, buffer_features, points)
        second == IF first.updated THEN [updated |-> FALSE, line |-> first.line]
                  ELSE process_endpoint(first.line, endpoints[2], 1, buffer_features, points)
    IN  [updated |-> first.updated \/ second.updated, line |-> second.line]

\* process_line: both endpoints are taken from the geometry as it was on entry
process_line(line_feature, buffer_layer, points) ==
    LET endpoints == get_endpoints(line_feature)
        buffer_features == get_intersecting_buffer_features(line_feature, buffer_layer)
        first == process_endpoint(line_feature, endpoints[1], 0, buffer_features, points)
        second == process_endpoint(first.line, endpoints[2], 1, buffer_features, points)
    IN  [updated |-> first.updated \/ second.updated, line |-> second.line]

InitSnap ==
    /\ point_layer \in SeqsUpTo(PointSites, MaxPoints)
    /\ line_layer \in SeqsUpTo(LineFeatures, MaxLines)
    /\ line_feature_set = line_layer
    /\ result_lines = <<>>
    /\ updated_count = 0
    /\ line_updated = FALSE
    /\ idx = 1
    /\ run_no = 1
    /\ pc = "main"
    /\ NoAdj
    /\ NoDir
    /\ NoMat
    /\ NoPt
    /\ NoMh
    /\ NoEdit
    /\ NoFrame

\* the end vertices of the lines collected so far
RECURSIVE collected_ends(_, _)
collected_ends(lines, k) ==
    IF k > Len(lines) THEN <<>>
    ELSE <<lines[k].path[1], lines[k].path[Len(lines[k].path)]>>
         \o collected_ends(lines, k + 1)

\* variant: the end vertices of the lines collected so far are candidates too
main_loop_chained ==
    /\ pc = "main"
    /\ idx <= Len(line_feature_set)
    /\ \E r \in { process_line(line_feature_set[idx],
                               create_buffers(point_layer, BUFFER_WIDTH_FEET),
                               point_layer \o collected_ends(result_lines, 1)) } :
           /\ line_updated' = r.updated
           /\ updated_count' = IF r.updated THEN updated_count + 1 ELSE updated_count
           /\ result_lines' = Append(result_lines, r.line)
           /\ line_feature_set' = [line_feature_set EXCEPT ![idx] = r.line]
           /\ idx' = idx + 1
           /\ pc' = pc
    /\ UNCHANGED <<point_layer, line_layer, run_no>>
    /\ UNCHANGED notSnapVars

\* variant: the point feature is moved to the endpoint instead
main_loop_moving_points ==
    /\ pc = "main"
    /\ idx <= Len(line_feature_set)
    /\ LET r == process_line(line_feature_set[idx],
                             create_buffers(point_layer, BUFFER_WIDTH_FEET), point_layer)
           ends == get_endpoints(line_feature_set[idx])
       IN  /\ line_updated' = r.updated
           /\ updated_count' = IF r.updated THEN updated_count + 1 ELSE updated_count
           /\ result_lines' = Append(result_lines, line_feature_set[idx])
           /\ line_feature_set' = line_feature_set
           /\ point_layer' =
                  [i \in 1..Len(point_layer) |->
                      IF point_layer[i] = get_endpoints(r.line)[1] THEN ends[1]
                      ELSE IF point_layer[i] = get_endpoints(r.line)[2] THEN ends[2]
                      ELSE point_layer[i]]
    /\ idx' = idx + 1
    /\ UNCHANGED <<line_layer, run_no, pc>>
    /\ UNCHANGED notSnapVars

\* variant: only a line that was updated is collected
main_loop_collecting_updated ==
    /\ pc = "main"
    /\ idx <= Len(line_feature_set)
    /\ LET r == process_line(line_feature_set[idx],
                             create_buffers(point_layer, BUFFER_WIDTH_FEET), point_layer)
       IN  /\ line_updated' = r.updated
           /\ updated_count' = IF r.updated THEN updated_count + 1 ELSE updated_count
           /\ result_lines' = IF r.updated THEN Append(result_lines, r.line)
                              ELSE result_lines
           /\ line_feature_set' = [line_feature_set EXCEPT ![idx] = r.line]
    /\ idx' = idx + 1
    /\ UNCHANGED <<point_layer, line_layer, run_no, pc>>
    /\ UNCHANGED notSnapVars

\* one pass of the for loop of main: process the next line and collect it; the
\* geometry is rewritten in place, so the feature set sees the change.  Nothing
\* catches an exception of process_line: main ends there (pc = "raised")
main_loop ==
    /\ pc = "main"
    /\ idx <= Len(line_feature_set)
    /\ IF get_endpoints_raises(line_feature_set[idx])
       THEN /\ line_updated' = FALSE
            /\ pc' = "raised"
            /\ UNCHANGED <<updated_count, result_lines, line_feature_set, idx>>
       ELSE \E r \in { process_line(line_feature_set[idx],
                                     create_buffers(point_layer, BUFFER_WIDTH_FEET),
                                     point_layer) } :
                /\ line_updated' = r.updated
                /\ updated_count' = IF r.updated THEN updated_count + 1 ELSE updated_count
                /\ result_lines' = Append(result_lines, r.line)
                /\ line_feature_set' = [line_feature_set EXCEPT ![idx] = r.line]
                /\ idx' = idx + 1
                /\ pc' = pc
    /\ UNCHANGED <<point_layer, line_layer, run_no>>
    /\ UNCHANGED notSnapVars

\* the loop of main is over: the count of updated lines is logged
main_end ==
    /\ pc = "main"
    /\ idx > Len(line_feature_set)
    /\ pc' = "done"
    /\ UNCHANGED snapVars
    /\ UNCHANGED notSnapVars

NextSnap == main_loop \/ main_end

\* main is run once more over the features that the first run produced, with
\* the same point layer; line_layer keeps the lines as they were stored
main_again ==
    /\ pc = "done"
    /\ run_no = 1
    /\ line_feature_set' = result_lines
    /\ result_lines' = <<>>
    /\ updated_count' = 0
    /\ line_updated' = FALSE
    /\ idx' = 1
    /\ run_no' = 2
    /\ pc' = "main"
    /\ UNCHANGED <<point_layer, line_layer>>
    /\ UNCHANGED notSnapVars

NextTwice == main_loop \/ main_end \/ main_again

SpecSnap == InitSnap /\ [][NextSnap]_vars

\* the same pass over a layer that may hold malformed geometries
\* line features with their attributes: paths of two and of three vertices,
\* one of them closed
FrameLineFeatures ==
    { [path |-> <<<<0, 0>>, <<2, 0>>>>, spatialReference |-> SR_PROJECTED,
       attributes |-> [FACILITYID |-> "F1"]],
      [path |-> <<<<1, 0>>, <<1, 1>>, <<2, 0>>>>, spatialReference |-> SR_PROJECTED,
       attributes |-> [FACILITYID |-> "F2"]],
      [path |-> <<<<0, 0>>, <<1, 0>>, <<0, 0>>>>, spatialReference |-> SR_PROJECTED,
       attributes |-> [FACILITYID |-> "F3"]],
      [path |-> <<<<2, 0>>, <<2, 0>>, <<1, 1>>>>, spatialReference |-> SR_PROJECTED,
       attributes |-> [FACILITYID |-> "F4"]] }

\* snap_endpoint_to_point is called for line k of the lines, with endpoint
\* index 0 or 1 and a point feature as the new point
InitFrame ==
    /\ \E lines \in SeqsUpTo(FrameLineFeatures, MaxLines) :
           \E k \in 1..Len(lines), endpoint_index \in {0, 1}, new_point \in PointSites :
               snap_call = [lines |-> lines, k |-> k,
                            endpoint_index |-> endpoint_index, new_point |-> new_point]
    /\ snap_result = <<>>
    /\ pc = "snap"
    /\ NoAdj
    /\ NoSnap
    /\ NoDir
    /\ NoMat
    /\ NoPt
    /\ NoMh
    /\ NoEdit

\* the call: the line feature is rewritten in place, the others are not
\* touched
call_snap_endpoint_to_point ==
    /\ pc = "snap"
    /\ snap_result' =
           [snap_call.lines EXCEPT ![snap_call.k] =
               snap_endpoint_to_point(@, snap_call.endpoint_index, snap_call.new_point)]
    /\ pc' = "done"
    /\ UNCHANGED snap_call
    /\ UNCHANGED notFrameVars

NextFrame == call_snap_endpoint_to_point

SpecFrame == InitFrame /\ [][NextFrame]_vars

\* the same pass, under which the distances of the snaps are checked
SpecSnapBound == InitSnap /\ [][NextSnap]_vars

\* two runs of main, one after the other
SpecTwice == InitSnap /\ [][NextTwice]_vars

InitBatch ==
    /\ point_layer \in SeqsUpTo(PointSites, MaxPoints)
    /\ line_layer \in SeqsUpTo(BatchLineFeatures, MaxLines)
    /\ line_feature_set = line_layer
    /\ result_lines = <<>>
    /\ updated_count = 0
    /\ line_updated = FALSE
    /\ idx = 1
    /\ run_no = 1
    /\ pc = "main"
    /\ NoAdj
    /\ NoDir
    /\ NoMat
    /\ NoPt
    /\ NoMh
    /\ NoEdit
    /\ NoFrame

SpecBatch == InitBatch /\ [][NextSnap]_vars

(* ---------------- get_materials.py ---------------- *)

\* PIPE_TYPE values are written as strings: "3" is the number 3, "0" the number
\* 0, "None" is None and "N/A" the string N/A
PipeTypes == { "None", "0", "1", "3", "99", "N/A" }

\* PIPE_TYPE_TO_MATERIAL_MAP
PIPE_TYPE_TO_MATERIAL_MAP ==
    [code \in { "1", "2", "3", "4", "5", "6", "None", "0", "N/A" } |->
        CASE code = "1" -> "PVC"
          [] code = "2" -> "RCP"
          [] code = "3" -> "Cast Iron"
          [] code = "4" -> "Ductile Iron"
          [] code = "5" -> "VCP"
          [] code = "6" -> "R.C.C.P"
          [] OTHER -> "Unknown"]

\* SHAPE@ of the rows of the projected feature class
MaterialShapes ==
    { <<>>,
      << <<0, 0>>, <<1, 0>> >>,
      << <<1, 0>>, <<1, 1>> >>,
      << <<1, 0>>, <<0, 0>> >>,
      << <<3, 1>>, <<1, 1>> >> }

\* the rows of the projected feature class; the fields that the script writes
\* hold values of an earlier run
MaterialTables(n) ==
    { [k \in 1..n |->
          [oid |-> k, id |-> FacilityIds[k], shape |-> shapes[k],
           pipe_type |-> types[k],
           from_adjacent_id |-> "old", to_adjacent_id |-> "old",
           material_source |-> "old",
           from_material |-> "old", to_material |-> "old"]] :
      shapes \in [1..n -> MaterialShapes], types \in [1..n -> PipeTypes] }

\* pipe_type_map.get(key, default)
dict_get(map, key, default) == IF key \in DOMAIN map THEN map[key] ELSE default

\* first pass: features_data, one entry per row that has a geometry, in the
\* order of insertion
RECURSIVE read_features(_, _)
read_features(table, k) ==
    IF k > Len(table) THEN <<>>
    ELSE LET row == table[k]
         IN  IF row.shape = <<>> THEN read_features(table, k + 1)
             ELSE <<[oid |-> row.oid, id |-> row.id,
                     sx |-> row.shape[1][1], sy |-> row.shape[1][2],
                     ex |-> row.shape[Len(row.shape)][1],
                     ey |-> row.shape[Len(row.shape)][2],
                     pipe_type |-> row.pipe_type]>>
                  \o read_features(table, k + 1)

\* the endpoint list: start, then end, of every entry of features_data
RECURSIVE build_endpoints(_, _)
build_endpoints(fd, k) ==
    IF k > Len(fd) THEN <<>>
    ELSE << [oid |-> fd[k].oid, x |-> fd[k].sx, y |-> fd[k].sy],
            [oid |-> fd[k].oid, x |-> fd[k].ex, y |-> fd[k].ey] >>
         \o build_endpoints(fd, k + 1)

\* the for loop over the endpoints: the position of the first endpoint of
\* another feature closer than xy_tolerance, 0 when the loop ends without break
RECURSIVE first_adjacent_endpoint(_, _, _, _, _, _)
first_adjacent_endpoint(endpoints, k, oid, x, y, tol) ==
    IF k > Len(endpoints) THEN 0
    ELSE IF endpoints[k].oid = oid
         THEN first_adjacent_endpoint(endpoints, k + 1, oid, x, y, tol)
    ELSE IF dist_lt_tolerance(x, y, endpoints[k].x, endpoints[k].y, tol) THEN k
    ELSE first_adjacent_endpoint(endpoints, k + 1, oid, x, y, tol)

\* features_data[oid]
features_data_at(fd, oid) == fd[CHOOSE k \in 1..Len(fd) : fd[k].oid = oid]

\* variant: the material is looked up with the pipe type of the feature itself
adjacent_id_and_own_material(fd, endpoints, oid, x, y, tol, pipe_type_map) ==
    LET k == first_adjacent_endpoint(endpoints, 1, oid, x, y, tol)
    IN  IF k = 0 THEN [adj |-> None, mat |-> None]
        ELSE [adj |-> features_data_at(fd, endpoints[k].oid).id,
              mat |-> dict_get(pipe_type_map, features_data_at(fd, oid).pipe_type,
                               "Unknown")]

\* the adjacent id and the material found for the point (x, y) of feature oid
adjacent_id_and_material(fd, endpoints, oid, x, y, tol, pipe_type_map) ==
    LET k == first_adjacent_endpoint(endpoints, 1, oid, x, y, tol)
    IN  IF k = 0 THEN [adj |-> None, mat |-> None]
        ELSE LET adj_pipe == features_data_at(fd, endpoints[k].oid).pipe_type
             IN  [adj |-> features_data_at(fd, endpoints[k].oid).id,
                  mat |-> dict_get(pipe_type_map, adj_pipe, "Unknown")]

\* second pass: results, keyed by OID
material_results(fd, tol, pipe_type_map) ==
    LET endpoints == build_endpoints(fd, 1)
    IN  [oid \in { fd[k].oid : k \in 1..Len(fd) } |->
            LET data == features_data_at(fd, oid)
                from == adjacent_id_and_material(fd, endpoints, oid, data.sx, data.sy,
                                                 tol, pipe_type_map)
                to == adjacent_id_and_material(fd, endpoints, oid, data.ex, data.ey,
                                               tol, pipe_type_map)
            IN  [from_adjacent_id |-> from.adj, to_adjacent_id |-> to.adj,
                 from_material |-> from.mat, to_material |-> to.mat]]

\* variant: only None counts as a missing PIPE_TYPE
material_source_unless_none(pipe_val) ==
    IF pipe_val # "None" THEN "Legacy" ELSE None

\* "Legacy" if pipe_val not in (None, 0) else None
material_source_of(pipe_val) ==
    IF pipe_val \notin { "None", "0" } THEN "Legacy" ELSE None

\* the body of the update cursor loop for one row: with an entry of calc_dict
\* the five fields are written, without one every field of the cursor but OID@
\* is set to None, PIPE_TYPE included
update_row(row, calc_dict) ==
    IF row.oid \in DOMAIN calc_dict
    THEN LET data == calc_dict[row.oid]
         IN  [row EXCEPT !.from_adjacent_id = data.from_adjacent_id,
                         !.to_adjacent_id = data.to_adjacent_id,
                         !.material_source = material_source_of(row.pipe_type),
                         !.from_material = data.from_material,
                         !.to_material = data.to_material]
    ELSE [row EXCEPT !.from_adjacent_id = None,
                     !.to_adjacent_id = None,
                     !.material_source = None,
                     !.from_material = None,
                     !.to_material = None,
                     !.pipe_type = None]

InitMat ==
    /\ \E n \in 1..MaxPipes : projected_fc \in MaterialTables(n)
    /\ xy_tolerance \in Tolerances
    /\ features_data = <<>>
    /\ calc_results = <<>>
    /\ feature_class = <<>>
    /\ feature_data = <<>>
    /\ from_adjacent_ids = <<>>
    /\ to_adjacent_ids = <<>>
    /\ pc = "calculate"
    /\ NoSnap
    /\ NoDir
    /\ NoPt
    /\ NoMh
    /\ NoEdit
    /\ NoFrame

calculate_adjacent_and_material ==
    /\ pc = "calculate"
    /\ features_data' = read_features(projected_fc, 1)
    /\ calc_results' = material_results(read_features(projected_fc, 1), xy_tolerance,
                                        PIPE_TYPE_TO_MATERIAL_MAP)
    /\ pc' = "update"
    /\ UNCHANGED <<projected_fc, xy_tolerance>>
    /\ UNCHANGED notMatVars

\* update_fields of get_materials.py
materials_update_fields ==
    /\ pc = "update"
    /\ projected_fc' = [k \in 1..Len(projected_fc) |->
                            update_row(projected_fc[k], calc_results)]
    /\ pc' = "done"
    /\ UNCHANGED <<features_data, calc_results, xy_tolerance>>
    /\ UNCHANGED notMatVars

NextMat == calculate_adjacent_and_material \/ materials_update_fields

SpecMat == InitMat /\ [][NextMat]_vars

(* ---------------- assign_point_info.py ---------------- *)

\* search_distance="0.05 Meters", in model units
SEARCH_DISTANCE == 2

\* locations of the point features and SHAPE@ of the lines: no vertex is at
\* exactly the search distance from a point location
PointFcSites == { <<0, 0>>, <<1, 1>>, <<5, 1>> }

PointTypes == { "Manhole", "Cleanout" }

PointIds == <<"P1", "P2", "P3", "P4">>

PointTables(n) ==
    { [k \in 1..n |-> [id |-> PointIds[k], type |-> types[k], xy |-> sites[k]]] :
      sites \in [1..n -> PointFcSites], types \in [1..n -> PointTypes] }

LineFcShapes ==
    { <<>>,
      << <<0, 0>>, <<1, 0>> >>,
      << <<1, 0>>, <<5, 0>> >>,
      << <<3, 3>>, <<0, 0>> >> }

\* the rows of the line feature class; the four point fields are empty (None)
\* or hold the values of an earlier run
LineTables(n) ==
    { [k \in 1..n |->
          [id |-> FacilityIds[k], shape |-> shapes[k],
           to_point_id |-> earlier, from_point_id |-> earlier,
           to_point_type |-> earlier, from_point_type |-> earlier]] :
      shapes \in [1..n -> LineFcShapes], earlier \in { None, "old" } }

\* SelectLayerByLocation(INTERSECT, search_distance): the point features within
\* the search distance of coords, in the order of the layer
select_by_location(points, coords) ==
    SelectSeq(points,
              LAMBDA f : dist2(f.xy[1], f.xy[2], coords[1], coords[2])
                             <= SEARCH_DISTANCE * SEARCH_DISTANCE)

\* variant: the id of the first selected row with the type of the last one
find_point_info_of_two_rows(coords, points) ==
    LET selected == select_by_location(points, coords)
    IN  IF selected = <<>> THEN <<>>
        ELSE <<[point_id |-> selected[1].id,
                feature_type |-> selected[Len(selected)].type]>>

\* find_point_info: the dictionary of the first selected row; <<>> stands for
\* None, returned when the cursor has no row
find_point_info(coords, points) ==
    LET selected == select_by_location(points, coords)
    IN  IF selected = <<>> THEN <<>>
        ELSE <<[point_id |-> selected[1].id, feature_type |-> selected[1].type]>>

\* the body of the update cursor loop for one row that has a geometry
assign_row(row, points) ==
    LET start_point_info == find_point_info(row.shape[1], points)
        end_point_info == find_point_info(row.shape[Len(row.shape)], points)
        with_start == IF start_point_info # <<>>
                      THEN [row EXCEPT !.from_point_id = start_point_info[1].point_id,
                                       !.from_point_type = start_point_info[1].feature_type]
                      ELSE row
    IN  IF end_point_info # <<>>
        THEN [with_start EXCEPT !.to_point_id = end_point_info[1].point_id,
                                !.to_point_type = end_point_info[1].feature_type]
        ELSE with_start

InitPt ==
    /\ \E n \in 0..MaxPoints : point_fc \in PointTables(n)
    /\ \E n \in 1..MaxLines : line_fc \in LineTables(n)
    /\ cursor_pos = 1
    /\ pc = "assign"
    /\ NoAdj
    /\ NoSnap
    /\ NoDir
    /\ NoMat
    /\ NoMh
    /\ NoEdit
    /\ NoFrame

\* one pass of the update cursor loop of assign_point_info; shape.firstPoint
\* raises AttributeError for a row without geometry and nothing catches it
assign_point_info ==
    /\ pc = "assign"
    /\ cursor_pos <= Len(line_fc)
    /\ IF line_fc[cursor_pos].shape = <<>>
       THEN /\ pc' = "raised"
            /\ UNCHANGED <<line_fc, cursor_pos>>
       ELSE /\ line_fc' = [line_fc EXCEPT ![cursor_pos] = assign_row(@, point_fc)]
            /\ cursor_pos' = cursor_pos + 1
            /\ pc' = pc
    /\ UNCHANGED point_fc
    /\ UNCHANGED notPtVars

\* the cursor has no more rows
assign_point_info_end ==
    /\ pc = "assign"
    /\ cursor_pos > Len(line_fc)
    /\ pc' = "done"
    /\ UNCHANGED ptVars
    /\ UNCHANGED notPtVars

NextPt == assign_point_info \/ assign_point_info_end

SpecPt == InitPt /\ [][NextPt]_vars

(* ---------------- assign_manhole_ids.py ---------------- *)

\* search_distance of find_manhole_id, "0.05 Meters"; in this script's tables
\* the unit of length is the hundredth of a meter, so that round(x, 2) of
\* get_line_intersection leaves every coordinate as it is
MANHOLE_SEARCH_DISTANCE == 5

\* where the manholes are: on a vertex, or 3 units away from one
ManholeSites == { <<0, 0>>, <<100, 3>>, <<50, 50>> }

ManholeIds == <<"M1", "M2", "M3">>

ManholeTables(n) ==
    { [k \in 1..n |-> [id |-> ManholeIds[k], xy |-> sites[k]]] :
      sites \in [1..n -> ManholeSites] }

\* SHAPE@ of a line: None, two vertices, or three vertices
ManholeLineShapes ==
    { <<>>,
      << <<0, 0>>, <<100, 0>> >>,
      << <<100, 0>>, <<0, 0>> >>,
      << <<100, 0>>, <<200, 0>> >>,
      << <<0, 0>>, <<50, 50>>, <<100, 0>> >>,
      << <<100, 0>>, <<50, 50>>, <<200, 0>> >> }

\* the line layer as get_flow_direction.py left it: from_adjacent_id and
\* to_adjacent_id are those of get_adjacent_ids for these shapes (vertices
\* match when they coincide), the manhole fields are still null
ManholeLineTables(n) ==
    { LET rows == [k \in 1..n |-> [oid |-> k, id |-> FacilityIds[k], shape |-> shapes[k]]]
          fd == read_rows(rows, 1)
          from_ids == get_adjacent_from(fd, 1)
          to_ids == get_adjacent_to(fd, 1)
      IN  [k \in 1..n |->
              [oid |-> k, id |-> FacilityIds[k], shape |-> shapes[k],
               from_adjacent_id |-> dict_get(from_ids, k, None),
               to_adjacent_id |-> dict_get(to_ids, k, None),
               from_manhole_id |-> None,
               to_manhole_id |-> None]] :
      shapes \in [1..n -> ManholeLineShapes] }

\* SelectLayerByAttribute: the rows whose FACILITYID is one of the two ids, in
\* the order of the layer
RECURSIVE select_by_attribute(_, _, _)
select_by_attribute(table, k, ids) ==
    IF k > Len(table) THEN <<>>
    ELSE (IF table[k].id \in ids THEN <<table[k]>> ELSE <<>>)
         \o select_by_attribute(table, k + 1, ids)

\* every vertex of the first part of every selected line that has a shape
RECURSIVE get_line_coordinates(_, _)
get_line_coordinates(selected, k) ==
    IF k > Len(selected) THEN <<>>
    ELSE selected[k].shape \o get_line_coordinates(selected, k + 1)

\* Counter(rounded_pairs)[pair]
count_of(pair, coord_pairs) ==
    Cardinality({ i \in 1..Len(coord_pairs) : coord_pairs[i] = pair })

\* the first coordinate, in the order of first occurrence, that occurs more
\* than once; <<>> stands for both () and None, which find_manhole_id treats
\* alike
get_line_intersection(coord_pairs) ==
    IF Len(coord_pairs) < 2 THEN <<>>
    ELSE LET common == { i \in 1..Len(coord_pairs) : count_of(coord_pairs[i], coord_pairs) > 1 }
         IN  IF common = {} THEN <<>>
             ELSE << coord_pairs[CHOOSE i \in common : \A j \in common : i <= j] >>

\* FACILITYID of the first manhole within the search distance of the
\* coordinates; None when coords[0] raises or when no manhole is selected
find_manhole_id(coords, manhole_layer) ==
    IF coords = <<>> THEN None
    ELSE LET selected == { m \in 1..Len(manhole_layer) :
                             dist2(coords[1][1], coords[1][2],
                                   manhole_layer[m].xy[1], manhole_layer[m].xy[2])
                               <= MANHOLE_SEARCH_DISTANCE * MANHOLE_SEARCH_DISTANCE }
         IN  IF selected = {} THEN None
             ELSE manhole_layer[CHOOSE m \in selected : \A n \in selected : m <= n].id

\* the manhole id found for one row and its adjacent row
manhole_id_of(table, row, adjacent_id, manhole_layer) ==
    find_manhole_id(
        get_line_intersection(
            get_line_coordinates(
                select_by_attribute(table, 1, {row.id, adjacent_id}), 1)),
        manhole_layer)

\* the layer after update_manhole_ids_single_side: the field is written only
\* when a manhole id was found
update_manhole_ids_single_side(table, adjacency_type, manhole_layer) ==
    [k \in 1..Len(table) |->
        LET row == table[k]
            adjacent_id == IF adjacency_type = "to" THEN row.to_adjacent_id
                           ELSE row.from_adjacent_id
            manhole_id == manhole_id_of(table, row, adjacent_id, manhole_layer)
        IN  IF manhole_id = None THEN row
            ELSE IF adjacency_type = "to"
                 THEN [row EXCEPT !.to_manhole_id = manhole_id]
                 ELSE [row EXCEPT !.from_manhole_id = manhole_id]]

InitMh ==
    /\ \E n \in 1..MaxLines : mh_line_fc \in ManholeLineTables(n)
    /\ \E n \in 0..MaxPoints : manhole_fc \in ManholeTables(n)
    /\ pc = "to_side"
    /\ NoAdj
    /\ NoSnap
    /\ NoDir
    /\ NoMat
    /\ NoPt
    /\ NoEdit
    /\ NoFrame

\* assign_manhole_ids, first call: the 'to' side
update_to_manhole_ids ==
    /\ pc = "to_side"
    /\ mh_line_fc' = update_manhole_ids_single_side(mh_line_fc, "to", manhole_fc)
    /\ pc' = "from_side"
    /\ UNCHANGED manhole_fc
    /\ UNCHANGED notMhVars

\* assign_manhole_ids, second call: the 'from' side
update_from_manhole_ids ==
    /\ pc = "from_side"
    /\ mh_line_fc' = update_manhole_ids_single_side(mh_line_fc, "from", manhole_fc)
    /\ pc' = "done"
    /\ UNCHANGED manhole_fc
    /\ UNCHANGED notMhVars

NextMh == update_to_manhole_ids \/ update_from_manhole_ids

SpecMh == InitMh /\ [][NextMh]_vars

(* ======================================================================= *)
(* Properties of get_adjacent_ids                                          *)
(* ======================================================================= *)

Done == pc = "done"

Features == 1..Len(feature_data)

Sides == {"from", "to"}

\* the coordinate of one end of feature i
EndOf(i, side) ==
    IF side = "from" THEN <<feature_data[i].sx, feature_data[i].sy>>
    ELSE <<feature_data[i].ex, feature_data[i].ey>>

\* the adjacent id recorded for one end of feature i
AdjOf(i, side) ==
    IF side = "from" THEN from_adjacent_ids[feature_data[i].oid]
    ELSE to_adjacent_ids[feature_data[i].oid]

SqDist(p, q) == (p[1] - q[1]) * (p[1] - q[1]) + (p[2] - q[2]) * (p[2] - q[2])

\* closer than the tolerance
Closer(p, q) == SqDist(p, q) < xy_tolerance * xy_tolerance

\* at the tolerance or closer
AtMost(p, q) == SqDist(p, q) <= xy_tolerance * xy_tolerance

\* some end of feature j is closer than the tolerance to p
TouchedBy(p, j) == \E s \in Sides : Closer(p, EndOf(j, s))

\* endpoint records in enumeration order: record 2j-1 is the start of feature j,
\* record 2j its end
Records == 1..(2 * Len(feature_data))

OwnerOf(r) == (r + 1) \div 2

PointOf(r) == EndOf(OwnerOf(r), IF r % 2 = 1 THEN "from" ELSE "to")

\* the records of other features that are closer than the tolerance to an end
MatchesOf(i, side) ==
    { r \in Records : OwnerOf(r) # i /\ Closer(EndOf(i, side), PointOf(r)) }

MinOf(S) == CHOOSE m \in S : \A n \in S : m <= n

\* C1 as stated: whenever an end of A is closer than xy_tolerance to an end of a
\* distinct segment B, A records B's id on that side and B records A's id on its
\* matching side.
C1_AllPairsRecorded ==
    Done => \A a \in Features, b \in Features, sa \in Sides, sb \in Sides :
                (a # b /\ Closer(EndOf(a, sa), EndOf(b, sb)))
                    => (AdjOf(a, sa) = feature_data[b].id /\ AdjOf(b, sb) = feature_data[a].id)

\* the junction of end sa of a and end sb of b is simple: no third segment has an
\* end closer than the tolerance to either of the two ends
SimpleJunction(a, sa, b, sb) ==
    /\ a # b
    /\ Closer(EndOf(a, sa), EndOf(b, sb))
    /\ \A c \in Features \ {a, b} :
           ~TouchedBy(EndOf(a, sa), c) /\ ~TouchedBy(EndOf(b, sb), c)

\* C1 amended: at a simple junction of an end of A and an end of B (no end of a
\* third segment closer than xy_tolerance to either end) A records B's id on its
\* matching side and B records A's id on its matching side, so the relation is
\* symmetric there.
C1_SimpleJunctionRecorded ==
    Done => \A a \in Features, b \in Features :
                a < b => \A sa \in Sides, sb \in Sides :
                    SimpleJunction(a, sa, b, sb)
                        => (AdjOf(a, sa) = feature_data[b].id
                            /\ AdjOf(b, sb) = feature_data[a].id)

\* C1 witness: three segments, two of them meeting at a simple junction whose
\* two ends are near each other without being equal
C1_Witness ==
    /\ Done
    /\ Len(feature_data) = 3
    /\ \E a \in Features, b \in Features, sa \in Sides, sb \in Sides :
           /\ SimpleJunction(a, sa, b, sb)
           /\ EndOf(a, sa) # EndOf(b, sb)
           /\ AdjOf(a, sa) = feature_data[b].id
           /\ feature_data[a].id # feature_data[b].id

\* the end of a meets the start of b and nothing else is near: no end of a third
\* segment near the meeting point, no end of a segment other than a near a's
\* start, no end of a segment other than b near b's end
C2_Pre(a, b) ==
    /\ a # b
    /\ Closer(EndOf(a, "to"), EndOf(b, "from"))
    /\ \A c \in Features \ {a, b} :
           ~TouchedBy(EndOf(a, "to"), c) /\ ~TouchedBy(EndOf(b, "from"), c)
    /\ \A c \in Features \ {a} : ~TouchedBy(EndOf(a, "from"), c)
    /\ \A c \in Features \ {b} : ~TouchedBy(EndOf(b, "to"), c)

\* C2: at a simple junction where the end of A meets the start of B and A's start
\* and B's end are free, to_adjacent_id[A] = B.id, from_adjacent_id[B] = A.id,
\* from_adjacent_id[A] is null and to_adjacent_id[B] is null.
C2_SimpleJunction ==
    Done => \A a \in Features, b \in Features :
                C2_Pre(a, b) =>
                    /\ AdjOf(a, "to") = feature_data[b].id
                    /\ AdjOf(b, "from") = feature_data[a].id
                    /\ AdjOf(a, "from") = None
                    /\ AdjOf(b, "to") = None

\* C2 witness: such a junction, with a third segment elsewhere
C2_Witness ==
    /\ Done
    /\ Len(feature_data) = 3
    /\ \E a \in Features, b \in Features :
           /\ C2_Pre(a, b)
           /\ EndOf(a, "to") = EndOf(b, "from")
           /\ AdjOf(a, "to") = feature_data[b].id
           /\ AdjOf(a, "from") = None

\* C3: the id recorded for an end is the id of the owner of the first endpoint
\* record, in enumeration order, that belongs to another segment and is
\* coincident with the end; with no such record it is null.
C3_FirstMatchWins ==
    Done => \A i \in Features, s \in Sides :
                LET matches == MatchesOf(i, s)
                IN  AdjOf(i, s) = IF matches = {} THEN None
                                  ELSE feature_data[OwnerOf(MinOf(matches))].id

\* C3 witness: an end shared with two other segments of different ids, the first
\* of which is recorded
C3_Witness ==
    /\ Done
    /\ \E i \in Features, s \in Sides :
           \E r1 \in MatchesOf(i, s), r2 \in MatchesOf(i, s) :
               /\ r1 < r2
               /\ r1 = MinOf(MatchesOf(i, s))
               /\ feature_data[OwnerOf(r1)].id # feature_data[OwnerOf(r2)].id
               /\ AdjOf(i, s) = feature_data[OwnerOf(r1)].id

\* C4 as stated: an endpoint of another segment at a distance of at most
\* xy_tolerance (the tolerance itself included) is accepted, so the end gets an
\* adjacent id.
C4_InclusiveTolerance ==
    Done => \A i \in Features, s \in Sides :
                (\E r \in Records : OwnerOf(r) # i /\ AtMost(EndOf(i, s), PointOf(r)))
                    => AdjOf(i, s) # None

\* C4 amended: the coincidence test is true iff the distance is strictly less
\* than xy_tolerance: a recorded neighbour owns an endpoint strictly closer than
\* the tolerance, and an end whose nearest other endpoints lie exactly at the
\* tolerance gets no adjacent id.
C4_StrictTolerance ==
    Done => \A i \in Features, s \in Sides :
                LET end == EndOf(i, s)
                    adj == AdjOf(i, s)
                IN  IF adj # None
                    THEN \E r \in Records :
                             /\ OwnerOf(r) # i
                             /\ feature_data[OwnerOf(r)].id = adj
                             /\ SqDist(end, PointOf(r)) < xy_tolerance * xy_tolerance
                    ELSE \A r \in Records :
                             OwnerOf(r) # i =>
                                 SqDist(end, PointOf(r)) >= xy_tolerance * xy_tolerance

\* C4 witness: an end with another segment's endpoint exactly at the tolerance,
\* none closer, and no adjacent id
C4_Witness ==
    /\ Done
    /\ \E i \in Features, s \in Sides :
           /\ \E r \in Records :
                  /\ OwnerOf(r) # i
                  /\ SqDist(EndOf(i, s), PointOf(r)) = xy_tolerance * xy_tolerance
           /\ MatchesOf(i, s) = {}
           /\ AdjOf(i, s) = None

UniqueId(i) == \A j \in Features \ {i} : feature_data[j].id # feature_data[i].id

\* C5: a segment with a unique id never gets its own id as adjacent id, on either
\* side, also when its start and end coincide.
C5_NoSelfAdjacency ==
    Done => \A i \in Features :
                UniqueId(i) => (AdjOf(i, "from") # feature_data[i].id
                                /\ AdjOf(i, "to") # feature_data[i].id)

\* C5 witness: a closed segment with a unique id that has a neighbour on both sides
C5_Witness ==
    /\ Done
    /\ \E i \in Features :
           /\ UniqueId(i)
           /\ EndOf(i, "from") = EndOf(i, "to")
           /\ AdjOf(i, "from") # None
           /\ AdjOf(i, "to") # None

\* C6: an end has a null adjacent id iff no endpoint of another segment is
\* coincident with it (closer than xy_tolerance), and both dictionaries have an
\* entry for every segment of the input.
C6_NullIffNoMatch ==
    Done => /\ DOMAIN from_adjacent_ids = { feature_data[i].oid : i \in Features }
            /\ DOMAIN to_adjacent_ids = { feature_data[i].oid : i \in Features }
            /\ \A i \in Features, s \in Sides :
                   (AdjOf(i, s) = None) <=> ~(\E j \in Features \ {i} : TouchedBy(EndOf(i, s), j))

\* C6 witness: a segment with a neighbour at one end and none at the other
C6_Witness ==
    /\ Done
    /\ Len(feature_data) >= 2
    /\ \E i \in Features :
           /\ AdjOf(i, "from") = None
           /\ AdjOf(i, "to") # None
           /\ ~(\E j \in Features \ {i} : TouchedBy(EndOf(i, "from"), j))

(* ======================================================================= *)
(* Properties of the snapping pass                                         *)
(* ======================================================================= *)

\* the lines that main has processed so far
Processed == 1..(idx - 1)

EndIndexes == {0, 1}

\* an endpoint of line k as stored in the layer, before the pass
OrigEnd(k, e) ==
    IF e = 0 THEN line_layer[k].path[1] ELSE line_layer[k].path[Len(line_layer[k].path)]

\* the same endpoint in the collected result
NewEnd(k, e) ==
    IF e = 0 THEN result_lines[k].path[1] ELSE result_lines[k].path[Len(result_lines[k].path)]

\* the point features within the search tolerance of a location
PointsInReach(q) ==
    { i \in 1..Len(point_layer) :
          SqDist(point_layer[i], q) <= BUFFER_WIDTH_FEET * BUFFER_WIDTH_FEET }

NotYetSnapped(q, i) ==
    SqDist(point_layer[i], q) > SNAP_TOLERANCE_FEET * SNAP_TOLERANCE_FEET

\* C7: no step of the pass changes the point layer: every point feature keeps
\* its coordinate and the sequence of point features stays the same.
C7_PointsNeverAltered == [][point_layer' = point_layer]_vars

\* C7 witness: the pass is over, it has moved an endpoint, and there are point
\* features
C7_Witness ==
    /\ pc = "done"
    /\ updated_count >= 1
    /\ Len(point_layer) = MaxPoints

C9_NearestWins ==
    \A k \in Processed, e \in EndIndexes :
        NewEnd(k, e) # OrigEnd(k, e) =>
            \E i \in PointsInReach(OrigEnd(k, e)) :
                /\ point_layer[i] = NewEnd(k, e)
                /\ \A j \in PointsInReach(OrigEnd(k, e)) :
                       SqDist(point_layer[i], OrigEnd(k, e))
                           <= SqDist(point_layer[j], OrigEnd(k, e))

\* C10: an endpoint that was moved lies on a point feature; it is never moved to
\* a location that is only the endpoint of another line.
C10_OnlySnappedToPoints ==
    \A k \in Processed, e \in EndIndexes :
        NewEnd(k, e) # OrigEnd(k, e) =>
            \E i \in 1..Len(point_layer) : point_layer[i] = NewEnd(k, e)

\* C10 witness: an endpoint was moved to a point feature although the endpoint
\* of another line, where no point feature lies, was closer to it
C10_Witness ==
    \E k \in Processed, e \in EndIndexes :
        /\ NewEnd(k, e) # OrigEnd(k, e)
        /\ \E j \in 1..Len(line_layer), f \in EndIndexes :
               /\ j # k
               /\ OrigEnd(j, f) # OrigEnd(k, e)
               /\ SqDist(OrigEnd(j, f), OrigEnd(k, e)) < SqDist(NewEnd(k, e), OrigEnd(k, e))
               /\ \A i \in 1..Len(point_layer) : point_layer[i] # OrigEnd(j, f)

Malformed(line_geom) ==
    Len(line_geom.path) < 2 \/ line_geom.spatialReference = None

\* C12: the pass is never aborted, a malformed segment is skipped (it is
\* collected as it was), and when the pass is over every segment of the layer
\* has been dealt with.
C12_MalformedSkipped ==
    /\ pc # "raised"
    /\ \A k \in Processed :
           Malformed(line_layer[k]) => result_lines[k] = line_layer[k]
    /\ (pc = "done" => Len(result_lines) = Len(line_layer))
\* the geometry of line k is not what the layer stored before the pass
GeometryChanged(k) == line_feature_set[k] # line_layer[k]

\* C13 as stated: when the pass is over, the collection of main holds exactly
\* the segments whose geometry changed: as many entries as changed segments,
\* each of them a changed geometry.
C13_OnlyChangedCollected ==
    pc = "done" =>
        /\ Len(result_lines)
               = Cardinality({ k \in 1..Len(line_layer) : GeometryChanged(k) })
        /\ \A r \in 1..Len(result_lines) :
               \E k \in 1..Len(line_layer) :
                   GeometryChanged(k) /\ result_lines[r] = line_feature_set[k]

\* C13 amended: when the pass is over, the collection of main holds every
\* segment of the layer, in layer order, changed or not; a segment whose
\* endpoint was moved carries the updated coordinates, the others their stored
\* geometry, and updated_count is the number of segments whose geometry changed.
C13_EveryLineCollected ==
    pc = "done" =>
        /\ Len(result_lines) = Len(line_layer)
        /\ \A k \in 1..Len(line_layer) :
               /\ result_lines[k] = line_feature_set[k]
               /\ GeometryChanged(k) <=> (\E e \in EndIndexes : NewEnd(k, e) # OrigEnd(k, e))
        /\ updated_count
               = Cardinality({ k \in 1..Len(line_layer) : GeometryChanged(k) })

\* C13 witness: the pass is over, one segment was changed and another was not,
\* and both are in the collection
C13_Witness ==
    /\ pc = "done"
    /\ Len(result_lines) = 2
    /\ updated_count = 1
    /\ \E j \in 1..2, k \in 1..2 :
           /\ GeometryChanged(j)
           /\ result_lines[j] # line_layer[j]
           /\ ~GeometryChanged(k)
           /\ result_lines[k] = line_layer[k]
(* ======================================================================= *)
(* Properties of calculate_bearing and get_direction_text                  *)
(* ======================================================================= *)

DirectionLabels == <<"N", "NE", "E", "SE", "S", "SW", "W", "NW">>

\* the bearing was computed from coordinates
FromCoordinates == bearing_args # <<>> /\ pc \in {"text", "done"}

SamePoints == bearing_args[1] = bearing_args[3] /\ bearing_args[2] = bearing_args[4]

DeltaIs(dx, dy) ==
    bearing_args[3] - bearing_args[1] = dx /\ bearing_args[4] - bearing_args[2] = dy

\* C14: for identical start and end coordinates the bearing is null and so is
\* the direction text; for distinct coordinates the bearing is a number and the
\* direction text is one of the eight labels; a null bearing always gives a
\* null direction text.
C14_NullIffZeroLength ==
    /\ FromCoordinates => (bearing = <<>> <=> SamePoints)
    /\ (FromCoordinates /\ pc = "done") =>
           IF SamePoints THEN direction_text = None
           ELSE \E i \in 1..8 : direction_text = DirectionLabels[i]
    /\ (pc = "done" /\ bearing = <<>>) => direction_text = None

\* C14 witness: both functions were applied to a zero-length line away from the
\* origin, and both results are null
C14_Witness ==
    /\ FromCoordinates
    /\ pc = "done"
    /\ SamePoints
    /\ bearing_args[1] # 0
    /\ bearing = <<>>
    /\ direction_text = None

\* C15: for every start point the bearing is 90 for the difference (1, 0), 0 for
\* (0, 1), 270 for (-1, 0) and 180 for (0, -1), and it is the bearing of the
\* same difference taken from the origin.
C15_AxisBearings ==
    FromCoordinates =>
        /\ DeltaIs(1, 0) => bearing = <<900>>
        /\ DeltaIs(0, 1) => bearing = <<0>>
        /\ DeltaIs(-1, 0) => bearing = <<2700>>
        /\ DeltaIs(0, -1) => bearing = <<1800>>
        /\ bearing = calculate_bearing(0, 0, bearing_args[3] - bearing_args[1],
                                             bearing_args[4] - bearing_args[2])

\* C15 witness: the bearing of the difference (-1, 0) from a start point other
\* than the origin is 270
C15_Witness ==
    /\ FromCoordinates
    /\ bearing_args[1] # 0
    /\ DeltaIs(-1, 0)
    /\ bearing = <<2700>>

\* the label of the 45-degree sector centred on a multiple of 45 degrees that
\* holds the bearing b (in tenths of a degree), lower boundary included
SectorLabel(b) == DirectionLabels[((((b % 3600) + 225) \div 450) % 8) + 1]

\* C16: every non-null bearing of 0..360 gets the label of its 45-degree sector,
\* the lower boundary of a sector included and the upper one excluded: 0, 22.4
\* and 360 give N, 22.5, 44 and 45 give NE, 67.5 gives E, [292.5, 337.5) gives
\* NW and [337.5, 360) gives N; the label is never null.
C16_SectorLabels ==
    (pc = "done" /\ bearing # <<>> /\ bearing_args = <<>>) =>
        /\ direction_text = SectorLabel(bearing[1])
        /\ direction_text # None
        /\ bearing[1] \in {0, 224, 3600} => direction_text = "N"
        /\ bearing[1] \in {225, 440, 450} => direction_text = "NE"
        /\ bearing[1] = 675 => direction_text = "E"
        /\ (bearing[1] >= 2925 /\ bearing[1] < 3375) => direction_text = "NW"
        /\ (bearing[1] >= 3375 /\ bearing[1] < 3600) => direction_text = "N"

\* C16 witness: the bearing 22.5, the lower boundary of the sector NE, got NE
C16_Witness ==
    /\ pc = "done"
    /\ bearing_args = <<>>
    /\ bearing = <<225>>
    /\ direction_text = "NE"
(* ======================================================================= *)
(* Properties of get_materials.py                                          *)
(* ======================================================================= *)

MatRows == 1..Len(projected_fc)

HasGeometry(k) == projected_fc[k].shape # <<>>

\* the coordinate of one end of row k
MatEnd(k, side) ==
    IF side = "from" THEN projected_fc[k].shape[1]
    ELSE projected_fc[k].shape[Len(projected_fc[k].shape)]

\* the adjacent id and the material written for one end of row k
MatAdj(k, side) ==
    IF side = "from" THEN projected_fc[k].from_adjacent_id
    ELSE projected_fc[k].to_adjacent_id

MatMaterial(k, side) ==
    IF side = "from" THEN projected_fc[k].from_material
    ELSE projected_fc[k].to_material

\* the name of the material of a pipe-type code, for the codes of PipeTypes
MaterialName(code) ==
    CASE code = "1" -> "PVC"
      [] code = "3" -> "Cast Iron"
      [] OTHER -> "Unknown"

\* C17: for every end of a segment at which an adjacent id is written, the id
\* is that of another segment N with an endpoint closer than xy_tolerance, and
\* the material written for that end is the name the table gives for N's own
\* PIPE_TYPE: "Cast Iron" for 3, "Unknown" for an unmapped code (99), for 0 and
\* for a missing code.
C17_NeighbourMaterial ==
    pc = "done" =>
        \A k \in MatRows, s \in Sides :
            (HasGeometry(k) /\ MatAdj(k, s) # None) =>
                \E n \in MatRows \ {k} :
                    /\ HasGeometry(n)
                    /\ projected_fc[n].id = MatAdj(k, s)
                    /\ \E t \in Sides :
                           SqDist(MatEnd(k, s), MatEnd(n, t)) < xy_tolerance * xy_tolerance
                    /\ MatMaterial(k, s) = MaterialName(projected_fc[n].pipe_type)
                    /\ projected_fc[n].pipe_type = "3" => MatMaterial(k, s) = "Cast Iron"
                    /\ projected_fc[n].pipe_type \in {"99", "0", "None"}
                           => MatMaterial(k, s) = "Unknown"

\* C17 witness: a segment of code 3 whose neighbour has the unmapped code 99
\* got "Unknown", and that neighbour got "Cast Iron"
C17_Witness ==
    /\ pc = "done"
    /\ \E k \in MatRows, n \in MatRows, s \in Sides, t \in Sides :
           /\ k # n
           /\ HasGeometry(k) /\ HasGeometry(n)
           /\ projected_fc[k].pipe_type = "3"
           /\ projected_fc[n].pipe_type = "99"
           /\ MatAdj(k, s) = projected_fc[n].id
           /\ MatMaterial(k, s) = "Unknown"
           /\ MatAdj(n, t) = projected_fc[k].id
           /\ MatMaterial(n, t) = "Cast Iron"

\* C18: for every segment that has a geometry, Material_Source is "Legacy" iff
\* the segment's own PIPE_TYPE is present and not 0, and null otherwise,
\* whatever its neighbours are.
C18_MaterialSource ==
    pc = "done" =>
        \A k \in MatRows :
            HasGeometry(k) =>
                /\ projected_fc[k].material_source \in {"Legacy", None}
                /\ projected_fc[k].material_source = "Legacy"
                       <=> projected_fc[k].pipe_type \notin {"None", "0"}

\* C18 witness: a segment whose PIPE_TYPE is 0 got a null Material_Source while
\* its neighbour with a code got "Legacy"
C18_Witness ==
    /\ pc = "done"
    /\ \E k \in MatRows, n \in MatRows :
           /\ HasGeometry(k) /\ HasGeometry(n)
           /\ projected_fc[k].pipe_type = "0"
           /\ projected_fc[k].material_source = None
           /\ projected_fc[k].to_adjacent_id = projected_fc[n].id
           /\ projected_fc[n].pipe_type = "3"
           /\ projected_fc[n].material_source = "Legacy"
(* ======================================================================= *)
(* Properties of assign_point_info.py                                      *)
(* ======================================================================= *)

\* the rows that the update cursor has written
Assigned == 1..(cursor_pos - 1)

\* the first or the last vertex of row k
VertexOf(k, side) ==
    IF side = "from" THEN line_fc[k].shape[1]
    ELSE line_fc[k].shape[Len(line_fc[k].shape)]

PointIdOf(k, side) ==
    IF side = "from" THEN line_fc[k].from_point_id ELSE line_fc[k].to_point_id

PointTypeOf(k, side) ==
    IF side = "from" THEN line_fc[k].from_point_type ELSE line_fc[k].to_point_type

\* the point features within the search tolerance of a location
PointsNear(q) ==
    { i \in 1..Len(point_fc) :
          SqDist(point_fc[i].xy, q) <= SEARCH_DISTANCE * SEARCH_DISTANCE }

\* C19: for a segment with a point feature within the search tolerance of its
\* first (last) vertex, from_point_id and from_point_type (to_point_id and
\* to_point_type) are the id and the category of one and the same such point
\* feature, the first of them in the order of the layer, also when several
\* match.
C19_PointOfVertex ==
    \A k \in Assigned, s \in Sides :
        LET near == PointsNear(VertexOf(k, s))
        IN  near # {} =>
                \E i \in near :
                    /\ \A j \in near : i <= j
                    /\ PointIdOf(k, s) = point_fc[i].id
                    /\ PointTypeOf(k, s) = point_fc[i].type

\* C19 witness: two point features of different categories are within the
\* search tolerance of the first vertex of a segment, the first of them is not
\* the nearer one, and the segment got the id and the category of the first
C19_Witness ==
    /\ pc = "done"
    /\ \E k \in Assigned :
           /\ PointsNear(VertexOf(k, "from")) = {1, 2}
           /\ point_fc[1].type # point_fc[2].type
           /\ SqDist(point_fc[2].xy, VertexOf(k, "from"))
                  < SqDist(point_fc[1].xy, VertexOf(k, "from"))
           /\ line_fc[k].from_point_id = point_fc[1].id
           /\ line_fc[k].from_point_type = point_fc[1].type

\* C20: after the run, for a segment with no point feature within the search
\* tolerance of its first (last) vertex, from_point_id and from_point_type
\* (to_point_id and to_point_type) are null, whatever they held before.
C20_NullWhenNoPoint ==
    pc = "done" =>
        \A k \in Assigned, s \in Sides :
            PointsNear(VertexOf(k, s)) = {} =>
                (PointIdOf(k, s) = None /\ PointTypeOf(k, s) = None)

(* ======================================================================= *)
(* Properties of assign_manhole_ids.py                                     *)
(* ======================================================================= *)

ManholeRows == 1..Len(mh_line_fc)

\* the line layer with every line reduced to its first and its last vertex,
\* as it was before the run
WithoutInteriorVertices(table) ==
    [k \in 1..Len(table) |->
        [table[k] EXCEPT !.shape = IF @ = <<>> THEN <<>> ELSE <<@[1], @[Len(@)]>>,
                         !.from_manhole_id = None,
                         !.to_manhole_id = None]]

\* the line layer after both calls of update_manhole_ids_single_side
AfterAssignment(table, manhole_layer) ==
    update_manhole_ids_single_side(
        update_manhole_ids_single_side(table, "to", manhole_layer),
        "from", manhole_layer)

\* some manhole with this id lies within the search distance of the vertex
ManholeAt(manhole_id, vertex) ==
    \E m \in 1..Len(manhole_fc) :
        /\ manhole_fc[m].id = manhole_id
        /\ SqDist(manhole_fc[m].xy, vertex) <= MANHOLE_SEARCH_DISTANCE * MANHOLE_SEARCH_DISTANCE

\* C21: interior vertices are never matched; for the manhole ids: the ids
\* written by assign_manhole_ids are those that the same run writes when
\* every line is reduced to its first and its last vertex
C21_InteriorVerticesNeverMatched ==
    (pc = "done" /\ mh_line_fc # <<>>) =>
        LET reduced == AfterAssignment(WithoutInteriorVertices(mh_line_fc), manhole_fc)
        IN  \A k \in ManholeRows :
                /\ mh_line_fc[k].to_manhole_id = reduced[k].to_manhole_id
                /\ mh_line_fc[k].from_manhole_id = reduced[k].from_manhole_id

\* C23: the id written to to_manhole_id of a segment that has a to-adjacent
\* segment is that of a manhole within the search distance of the segment's
\* last vertex, and the id written to from_manhole_id of a segment that has a
\* from-adjacent segment is that of a manhole at its first vertex
C23_ManholeAtOwnEnd ==
    (pc = "done" /\ mh_line_fc # <<>>) =>
        \A k \in ManholeRows :
            LET row == mh_line_fc[k]
            IN  /\ (row.to_adjacent_id # None /\ row.to_manhole_id # None)
                       => ManholeAt(row.to_manhole_id, row.shape[Len(row.shape)])
                /\ (row.from_adjacent_id # None /\ row.from_manhole_id # None)
                       => ManholeAt(row.from_manhole_id, row.shape[1])

(* ======================================================================= *)
(* Properties of update_fields of get_flow_direction.py                    *)
(* ======================================================================= *)

DirRows == 1..Len(feature_class)

\* the row has no geometry, or a geometry whose end points cannot be read
Unreadable(row) == row.shape = <<>> \/ row.shape = EmptyShape

\* calculate_direction_values made a tuple for the row
InFeatureData(row) == \E i \in Features : feature_data[i].oid = row.oid

\* the four derived fields of the row are null
DerivedFieldsNull(row) ==
    /\ row.from_adjacent_id = None
    /\ row.to_adjacent_id = None
    /\ row.direction_float = <<>>
    /\ row.direction_text = None

\* the four derived fields of the row hold the adjacent ids of the scan and
\* the bearing and direction of the line from its first to its last vertex
DerivedFieldsComputed(row) ==
    LET p == row.shape[1]
        q == row.shape[Len(row.shape)]
    IN  /\ row.from_adjacent_id = from_adjacent_ids[row.oid]
        /\ row.to_adjacent_id = to_adjacent_ids[row.oid]
        /\ row.direction_float = calculate_bearing(p[1], p[2], q[1], q[2])
        /\ row.direction_text = get_direction_text(row.direction_float)

\* C22: after a completed run a segment with null geometry or unreadable end
\* points has no tuple in feature_data, is nobody's adjacent segment and has
\* null in its four derived fields, and every other segment holds its
\* computed values
C22_FailuresIsolated ==
    (pc = "done" /\ edit_backup # <<>>) =>
        \A k \in DirRows :
            LET row == feature_class[k]
            IN  IF Unreadable(row)
                THEN /\ ~InFeatureData(row)
                     /\ DerivedFieldsNull(row)
                     /\ \A j \in DirRows :
                            /\ feature_class[j].from_adjacent_id # row.id
                            /\ feature_class[j].to_adjacent_id # row.id
                ELSE /\ InFeatureData(row)
                     /\ DerivedFieldsComputed(row)

\* a completed run over a table that held the values of an earlier run, with
\* an unreadable segment next to segments that have an adjacent segment
C22_Witness ==
    /\ pc = "done"
    /\ edit_backup # <<>>
    /\ \E k \in DirRows :
           /\ Unreadable(feature_class[k])
           /\ edit_backup[k].direction_text = "old"
           /\ DerivedFieldsNull(feature_class[k])
    /\ \E j \in DirRows :
           /\ ~Unreadable(feature_class[j])
           /\ feature_class[j].to_adjacent_id \notin {None, "old"}
           /\ feature_class[j].direction_float # <<>>

\* C25: when update_fields returns after an error at some row, the table is
\* as it was when the edit session started and the session is closed; when it
\* returns without an error, the session is closed and every row holds the
\* values written in this run; the error never leaves update_fields
C25_AllOrNothing ==
    /\ pc = "aborted" => (feature_class = edit_backup /\ ~isEditing)
    /\ (pc = "done" /\ edit_backup # <<>>) =>
           /\ ~isEditing
           /\ \A k \in DirRows :
                  \/ DerivedFieldsNull(feature_class[k]) /\ Unreadable(feature_class[k])
                  \/ DerivedFieldsComputed(feature_class[k]) /\ ~Unreadable(feature_class[k])
    /\ pc # "raised"

\* an error at a later row, after the first row had been written with values
\* that differ from those of the earlier run
C25_Witness ==
    /\ pc = "aborted"
    /\ edit_cursor > 1
    /\ ~Unreadable(edit_backup[1])
    /\ edit_backup[1].direction_text = "old"
    /\ feature_class[1].direction_text = "old"

(* ======================================================================= *)
(* Properties of update_fields of get_materials.py                         *)
(* ======================================================================= *)

\* C30: no step of the material update changes the PIPE_TYPE code of a row,
\* whether or not the row has a computed record
C30_PipeTypeNeverWritten ==
    [][\A k \in 1..Len(projected_fc) :
           projected_fc'[k].pipe_type = projected_fc[k].pipe_type]_vars

(* ======================================================================= *)
(* Properties of the snapping pass: tolerances, order, second run          *)
(* ======================================================================= *)

\* the buffer that decides for a location: the last one, in layer order, that
\* holds it (0 when there is none)
DecidingBuffer(q) ==
    CHOOSE b \in 0..Len(point_layer) :
        /\ b # 0 => SqDist(point_layer[b], q) <= BUFFER_WIDTH_FEET * BUFFER_WIDTH_FEET
        /\ \A j \in (b + 1)..Len(point_layer) :
               SqDist(point_layer[j], q) > BUFFER_WIDTH_FEET * BUFFER_WIDTH_FEET

\* the target points of a location: the point features in its deciding buffer
TargetPoints(q) ==
    { i \in 1..Len(point_layer) :
          \E b \in { DecidingBuffer(q) } :
              /\ b # 0
              /\ SqDist(point_layer[i], point_layer[b])
                     <= BUFFER_WIDTH_FEET * BUFFER_WIDTH_FEET }

\* the nearest target point of the location is within SNAP_TOLERANCE_FEET
NearestTargetWithinTolerance(q) ==
    \E b \in { DecidingBuffer(q) } :
        /\ b # 0
        /\ \E i \in 1..Len(point_layer) :
               /\ SqDist(point_layer[i], point_layer[b])
                      <= BUFFER_WIDTH_FEET * BUFFER_WIDTH_FEET
               /\ SqDist(point_layer[i], q) <= SNAP_TOLERANCE_FEET * SNAP_TOLERANCE_FEET

ProcessedAlone(line) ==
    process_line(line, create_buffers(point_layer, BUFFER_WIDTH_FEET), point_layer)

\* C29: every step of the pass gives the line the geometry and the modified
\* flag that it gets when it is processed on its own, whatever was processed
\* before it, counts it when it was modified, and leaves the results of the
\* lines processed before it as they are
C29_OrderIndependent ==
    [][idx' = idx + 1 =>
           \E alone \in { ProcessedAlone(line_layer[idx]) } :
               /\ result_lines' = Append(result_lines, alone.line)
               /\ line_updated' = alone.updated
               /\ updated_count' = updated_count + (IF alone.updated THEN 1 ELSE 0)]_vars

\* the pass is over two different lines, the first was left as it was, the
\* second was moved, and an end of the first is nearer to the old end of the
\* second than the point it was moved to
C29_Witness ==
    /\ pc = "done"
    /\ Len(line_layer) >= 2
    /\ result_lines[1] = line_layer[1]
    /\ \E e \in EndIndexes, f \in EndIndexes :
           /\ NewEnd(2, e) # OrigEnd(2, e)
           /\ SqDist(OrigEnd(1, f), OrigEnd(2, e)) < SqDist(NewEnd(2, e), OrigEnd(2, e))

(* ======================================================================= *)
(* Properties of snap_endpoint_to_point                                    *)
(* ======================================================================= *)

\* the position of the vertex that the call is to rewrite
SnappedVertex ==
    IF snap_call.endpoint_index = 0 THEN 1 ELSE Len(snap_call.lines[snap_call.k].path)

\* C26: after snap_endpoint_to_point the given line has the same number of
\* vertices, the new point at its first (index 0) or last (index 1) vertex,
\* every other vertex, its spatial reference and its attributes as before,
\* and every other line is as before
C26_SnapFrame ==
    (pc = "done" /\ snap_call # <<>>) =>
        LET before == snap_call.lines[snap_call.k]
            after == snap_result[snap_call.k]
        IN  /\ Len(snap_result) = Len(snap_call.lines)
            /\ Len(after.path) = Len(before.path)
            /\ after.path[SnappedVertex] = snap_call.new_point
            /\ \A i \in 1..Len(before.path) :
                   i # SnappedVertex => after.path[i] = before.path[i]
            /\ after.spatialReference = before.spatialReference
            /\ after.attributes = before.attributes
            /\ \A j \in 1..Len(snap_call.lines) :
                   j # snap_call.k => snap_result[j] = snap_call.lines[j]

\* the last vertex of a line of three vertices was moved, and there is
\* another line
C26_Witness ==
    /\ pc = "done"
    /\ snap_call # <<>>
    /\ Len(snap_call.lines) >= 2
    /\ snap_call.endpoint_index = 1
    /\ Len(snap_call.lines[snap_call.k].path) = 3
    /\ snap_result[snap_call.k].path[3] # snap_call.lines[snap_call.k].path[3]
    /\ snap_result[snap_call.k].path[3] = snap_call.new_point

====
